---- MODULE Spec2Model ----
(***************************************************************************)
(* A model of python/jittor/transform/transform.py: the transform classes  *)
(* (Compose, RandomCropAndResize, RandomCrop, CenterCrop,                  *)
(* RandomHorizontalFlip, ImageNormalize) and the functions they call.      *)
(*                                                                         *)
(* One invocation of one transform is a run of the state machine: Init     *)
(* fixes the constructed object (self) and the argument (img), the actions *)
(* are the statements of its __call__, and a run ends with pc = "returned" *)
(* (ret holds the value) or pc = "raised" (exc holds the exception).       *)
(* Real numbers are exact rationals <<n, d>>, d > 0; float rounding error  *)
(* is outside the model.                                                   *)
(***************************************************************************)
EXTENDS Integers, Sequences, FiniteSets, TLC

VARIABLES
    pc,     \* the statement the invocation is at
    self,   \* the fields the constructor stored on the transform object
    img,    \* the argument of __call__
    loc,    \* the local variables of the running function
    calls,  \* the calls made so far to collaborators, in order
    draws,  \* the number of values drawn from the random sources
    ret,    \* the value returned, NoneV before
    exc     \* the exception raised, "None" before

vars == <<pc, self, img, loc, calls, draws, ret, exc>>

NoneV == [kind |-> "None"]
Val(v) == [kind |-> "val", v |-> v]

(***************************************************************************)
(* Bounds of the model.                                                    *)
(***************************************************************************)
MaxLen == 3     \* longest Compose pipeline
DataMod == 4    \* Compose threads values 0 .. DataMod-1
MaxDim == 3     \* image widths and heights are 1 .. MaxDim
RandDen == 4    \* random.random() and p are multiples of 1/RandDen

(***************************************************************************)
(* Compose (lines 503-526).  The transforms are caller-supplied callables; *)
(* the model supplies four: two that always succeed, one that always       *)
(* raises and one that raises on odd input.                                *)
(***************************************************************************)
Stages == {"inc", "dbl", "bad", "odd"}
Data == 0 .. (DataMod - 1)

\* t(data) at line 525: what the callable t returns or raises on data.
StageApply(t, d) ==
    CASE t = "inc" -> [kind |-> "ok", v |-> (d + 1) % DataMod]
      [] t = "dbl" -> [kind |-> "ok", v |-> (2 * d) % DataMod]
      [] t = "bad" -> [kind |-> "raise", e |-> "BadError"]
      [] t = "odd" -> IF d % 2 = 1 THEN [kind |-> "raise", e |-> "OddError"]
                                   ELSE [kind |-> "ok", v |-> d]

SeqsUpTo(S, n) == UNION {[1 .. k -> S] : k \in 0 .. n}

\* Compose.__init__ (lines 520-521) and the caller's argument.
InitCompose ==
    /\ pc = "compose_call"
    /\ self \in {[transforms |-> ts] : ts \in SeqsUpTo(Stages, MaxLen)}
    /\ img \in Data
    /\ loc = [it |-> 0, data |-> 0]
    /\ calls = <<>>
    /\ draws = 0
    /\ ret = NoneV
    /\ exc = "None"

\* __call__ is entered: data is the argument, the for loop takes an iterator
\* over self.transforms (lines 523-524).
ComposeEnter ==
    /\ pc = "compose_call"
    /\ loc' = [it |-> 1, data |-> img]
    /\ pc' = "compose_loop"
    /\ UNCHANGED <<self, img, calls, draws, ret, exc>>

\* A mutant of ComposeStage: every stage is given the pipeline's argument.
ComposeStageSameInput ==
    /\ pc = "compose_loop"
    /\ loc.it <= Len(self.transforms)
    /\ LET t == self.transforms[loc.it]
           r == StageApply(t, img)
       IN /\ calls' = Append(calls, <<loc.it, img>>)
          /\ IF r.kind = "ok"
             THEN /\ loc' = [it |-> loc.it + 1, data |-> r.v]
                  /\ UNCHANGED <<pc, exc>>
             ELSE /\ pc' = "raised"
                  /\ exc' = r.e
                  /\ UNCHANGED loc
    /\ UNCHANGED <<self, img, draws, ret>>

\* A mutant of ComposeStage: a failing stage is skipped and the loop goes on.
ComposeStageSwallow ==
    /\ pc = "compose_loop"
    /\ loc.it <= Len(self.transforms)
    /\ LET t == self.transforms[loc.it]
           r == StageApply(t, loc.data)
       IN /\ calls' = Append(calls, <<loc.it, loc.data>>)
          /\ loc' = [it |-> loc.it + 1,
                     data |-> IF r.kind = "ok" THEN r.v ELSE loc.data]
    /\ UNCHANGED <<pc, self, img, draws, ret, exc>>

\* One iteration of the loop (lines 524-525): the next transform is called on
\* data; its value becomes data, its exception leaves __call__ uncaught.
ComposeStage ==
    /\ pc = "compose_loop"
    /\ loc.it <= Len(self.transforms)
    /\ LET t == self.transforms[loc.it]
           r == StageApply(t, loc.data)
       IN /\ calls' = Append(calls, <<loc.it, loc.data>>)
          /\ IF r.kind = "ok"
             THEN /\ loc' = [it |-> loc.it + 1, data |-> r.v]
                  /\ UNCHANGED <<pc, exc>>
             ELSE /\ pc' = "raised"
                  /\ exc' = r.e
                  /\ UNCHANGED loc
    /\ UNCHANGED <<self, img, draws, ret>>

\* The iterator is exhausted: return data (line 526).
ComposeReturn ==
    /\ pc = "compose_loop"
    /\ loc.it > Len(self.transforms)
    /\ ret' = Val(loc.data)
    /\ pc' = "returned"
    /\ UNCHANGED <<self, img, loc, calls, draws, exc>>

NextCompose == ComposeEnter \/ ComposeStage \/ ComposeReturn

SpecCompose == InitCompose /\ [][NextCompose]_vars

\* The value after the first k transforms, computed as tk(...t2(t1(x))...).
RECURSIVE ChainAfter(_, _, _)
ChainAfter(ts, x, k) ==
    IF k = 0 THEN [kind |-> "ok", v |-> x]
    ELSE LET prev == ChainAfter(ts, x, k - 1)
         IN IF prev.kind = "ok" THEN StageApply(ts[k], prev.v) ELSE prev

IsComposeRun == "transforms" \in DOMAIN self

\* Whether the j-th recorded call of the pipeline failed.
CallFailed(j) == StageApply(self.transforms[calls[j][1]], calls[j][2]).kind = "raise"

\* C1: Compose([t1..tn])(x) calls each transform exactly once, in list order,
\* each on the previous one's output (t1 on x), and returns tn(...t1(x)...);
\* it returns whenever no stage fails, and Compose([])(x) calls nothing and
\* returns x.
C1_ComposeThreadsInOrder ==
    (IsComposeRun /\ pc \in {"returned", "raised"}) =>
        LET ts == self.transforms
            n == Len(ts)
        IN /\ (pc = "returned") <=> (ChainAfter(ts, img, n).kind = "ok")
           /\ pc = "returned" =>
                /\ calls = [k \in 1 .. n |-> <<k, ChainAfter(ts, img, k - 1).v>>]
                /\ ret = Val(ChainAfter(ts, img, n).v)
           /\ n = 0 => (pc = "returned" /\ calls = <<>> /\ ret = Val(img))

C1_Witness ==
    /\ IsComposeRun
    /\ pc = "returned"
    /\ self.transforms = <<"inc", "dbl", "inc">>
    /\ Len(calls) = 3
    /\ img = 0
    /\ ret = Val(3)

\* C2: when a stage of a Compose pipeline fails, the invocation ends there
\* with that stage's exception, unchanged; no later stage is called, no stage
\* is called again, and nothing is returned.
C2_ComposeFailurePropagates ==
    IsComposeRun =>
        /\ \A j \in 1 .. Len(calls) :
              /\ calls[j][1] = j
              /\ CallFailed(j) =>
                    /\ j = Len(calls)
                    /\ pc = "raised"
                    /\ exc = StageApply(self.transforms[j], calls[j][2]).e
                    /\ ret = NoneV
                    /\ ~ ENABLED NextCompose
        /\ pc = "raised" => (Len(calls) >= 1 /\ CallFailed(Len(calls)))

C2_Witness ==
    /\ IsComposeRun
    /\ pc = "raised"
    /\ exc = "OddError"
    /\ Len(self.transforms) = 3
    /\ Len(calls) = 2
    /\ ret = NoneV

(***************************************************************************)
(* Numbers.  Python's round() rounds a tie to the even neighbour.          *)
(***************************************************************************)
Abs(n) == IF n < 0 THEN -n ELSE n

\* A mutant of PyRound: floor division.
PyRoundFloor(n, d) == n \div d

\* round(n / d) for integers n and d > 0, as Python 3 computes it.
PyRound(n, d) ==
    LET f == n \div d
        r == n % d
    IN IF 2 * r < d THEN f
       ELSE IF 2 * r > d THEN f + 1
       ELSE IF f % 2 = 0 THEN f ELSE f + 1

\* np.random.randint(low, high): the values it can return; none when
\* high <= low, where it raises ValueError.
NpRandInt(low, high) == IF high <= low THEN {} ELSE low .. (high - 1)

(***************************************************************************)
(* Images and the backend (function_pil) the geometric functions forward   *)
(* to.  For the geometric transforms an image is its width and height.     *)
(***************************************************************************)
Pil(w, h) == [kind |-> "pil", w |-> w, h |-> h]
Dims == 1 .. MaxDim
Images == {Pil(w, h) : w \in Dims, h \in Dims}
\* Sizes a caller may ask for: 0 up to one more than the largest image side.
Sizes == 0 .. (MaxDim + 1)

\* _get_image_size (lines 25-29): (w, h).
GetImageSize(im) == <<im.w, im.h>>

BoxInside(im, top, left, height, width) ==
    /\ 0 <= top /\ 0 <= left /\ 0 <= height /\ 0 <= width
    /\ top + height <= im.h
    /\ left + width <= im.w

\* crop (lines 188-213) forwards to the backend: a box inside the image gives
\* an image of the box's height and width; for any other box the outcome is
\* the backend's (an image of some size, or a failure).
CropOutcomes(im, top, left, height, width) ==
    IF BoxInside(im, top, left, height, width)
    THEN {Val(Pil(width, height))}
    ELSE {Val(Pil(Abs(width), Abs(height))), [kind |-> "raise", e |-> "BackendError"]}

CropCall(top, left, height, width) ==
    [fn |-> "crop", top |-> top, left |-> left, height |-> height, width |-> width]

\* The call crop(img, top, left, height, width) as the last statement of a
\* function: its value is returned, its failure propagates.
ReturnCrop(im, top, left, height, width) ==
    /\ calls' = Append(calls, CropCall(top, left, height, width))
    /\ \E out \in CropOutcomes(im, top, left, height, width) :
          IF out.kind = "val"
          THEN pc' = "returned" /\ ret' = out /\ UNCHANGED exc
          ELSE pc' = "raised" /\ exc' = out.e /\ UNCHANGED ret

\* A size argument as the caller writes it: an int, or a sequence of ints.
IntArg(n) == [kind |-> "int", v |-> n]
SeqArg(q) == [kind |-> "seq", v |-> q]
SizeArgs ==
    {IntArg(n) : n \in Sizes} \cup {SeqArg(<<n>>) : n \in Sizes}
        \cup {SeqArg(<<a, b>>) : a \in Sizes, b \in Sizes}

(***************************************************************************)
(* RandomCrop (lines 570-594).                                             *)
(***************************************************************************)
\* RandomCrop.__init__ (lines 583-587): an int becomes a pair.
RandomCropInit(size) == IF size.kind = "int" THEN <<size.v, size.v>> ELSE size.v

InitRandomCrop ==
    /\ pc = "rc_call"
    /\ \E size \in {a \in SizeArgs : a.kind = "int" \/ Len(a.v) = 2} :
          self = [cls |-> "RandomCrop", given |-> size, size |-> RandomCropInit(size)]
    /\ img \in Images
    /\ loc = [width |-> 0, height |-> 0, top |-> 0, left |-> 0]
    /\ calls = <<>>
    /\ draws = 0
    /\ ret = NoneV
    /\ exc = "None"

\* A mutant of RandomCropAssert: only the height is checked.
RandomCropAssertHeightOnly ==
    /\ pc = "rc_call"
    /\ LET wh == GetImageSize(img)
       IN /\ loc' = [loc EXCEPT !.width = wh[1], !.height = wh[2]]
          /\ IF self.size[1] <= wh[2]
             THEN pc' = "rc_top" /\ UNCHANGED exc
             ELSE pc' = "raised" /\ exc' = "AssertionError"
    /\ UNCHANGED <<self, img, calls, draws, ret>>

\* Lines 590-591: read the image's size and assert the crop size fits.
RandomCropAssert ==
    /\ pc = "rc_call"
    /\ LET wh == GetImageSize(img)
       IN /\ loc' = [loc EXCEPT !.width = wh[1], !.height = wh[2]]
          /\ IF self.size[1] <= wh[2] /\ self.size[2] <= wh[1]
             THEN pc' = "rc_top" /\ UNCHANGED exc
             ELSE pc' = "raised" /\ exc' = "AssertionError"
    /\ UNCHANGED <<self, img, calls, draws, ret>>

\* A mutant of RandomCropTopHigh: the exclusive upper bound is one too large.
RandomCropTopHighOffByOne == loc.height - self.size[1] + 2

\* The exclusive upper bound of the top offset (line 592).
RandomCropTopHigh == loc.height - self.size[1] + 1

\* The exclusive upper bound of the left offset (line 593).
RandomCropLeftHigh == loc.width - self.size[2] + 1

\* Line 592 with the outcome top = t.
RandomCropTopIs(t) ==
    /\ pc = "rc_top"
    /\ t \in NpRandInt(0, RandomCropTopHigh)
    /\ loc' = [loc EXCEPT !.top = t]
    /\ draws' = draws + 1
    /\ pc' = "rc_left"
    /\ UNCHANGED <<self, img, calls, ret, exc>>

\* Line 593 with the outcome left = l.
RandomCropLeftIs(l) ==
    /\ pc = "rc_left"
    /\ l \in NpRandInt(0, RandomCropLeftHigh)
    /\ loc' = [loc EXCEPT !.left = l]
    /\ draws' = draws + 1
    /\ pc' = "rc_crop"
    /\ UNCHANGED <<self, img, calls, ret, exc>>

\* Line 592: np.random.randint draws top, or raises on an empty range.
RandomCropTop ==
    /\ pc = "rc_top"
    /\ IF NpRandInt(0, RandomCropTopHigh) = {}
       THEN /\ pc' = "raised"
            /\ exc' = "ValueError"
            /\ UNCHANGED <<self, img, loc, calls, draws, ret>>
       ELSE \E t \in NpRandInt(0, RandomCropTopHigh) : RandomCropTopIs(t)

\* Line 593: np.random.randint draws left, or raises on an empty range.
RandomCropLeft ==
    /\ pc = "rc_left"
    /\ IF NpRandInt(0, RandomCropLeftHigh) = {}
       THEN /\ pc' = "raised"
            /\ exc' = "ValueError"
            /\ UNCHANGED <<self, img, loc, calls, draws, ret>>
       ELSE \E l \in NpRandInt(0, RandomCropLeftHigh) : RandomCropLeftIs(l)

\* Line 594.
RandomCropCrop ==
    /\ pc = "rc_crop"
    /\ ReturnCrop(img, loc.top, loc.left, self.size[1], self.size[2])
    /\ UNCHANGED <<self, img, loc, draws>>

NextRandomCrop ==
    RandomCropAssert \/ RandomCropTop \/ RandomCropLeft \/ RandomCropCrop

SpecRandomCrop == InitRandomCrop /\ [][NextRandomCrop]_vars

IsRandomCropRun == "cls" \in DOMAIN self /\ self.cls = "RandomCrop"

\* C4: RandomCrop with size (h, w) on an image of height H and width W with
\* h <= H and w <= W crops with top in [0, H-h], left in [0, W-w] and a box of
\* exactly h by w, inside the source, whatever the random outcome; and every
\* offset pair of [0, H-h] x [0, W-w] is a possible outcome.
C4_RandomCropOffsetsInRange ==
    (IsRandomCropRun /\ self.size[1] <= img.h /\ self.size[2] <= img.w) =>
        LET h == self.size[1]
            w == self.size[2]
        IN /\ pc = "rc_top" => \A t \in 0 .. (img.h - h) : ENABLED RandomCropTopIs(t)
           /\ pc = "rc_left" =>
                /\ loc.top \in 0 .. (img.h - h)
                /\ \A l \in 0 .. (img.w - w) : ENABLED RandomCropLeftIs(l)
           /\ pc = "rc_crop" =>
                /\ loc.top \in 0 .. (img.h - h)
                /\ loc.left \in 0 .. (img.w - w)
           /\ pc \notin {"rc_call", "rc_top", "rc_left", "rc_crop"} =>
                /\ pc = "returned"
                /\ Len(calls) = 1
                /\ calls[1].fn = "crop"
                /\ calls[1].top \in 0 .. (img.h - h)
                /\ calls[1].left \in 0 .. (img.w - w)
                /\ calls[1].height = h
                /\ calls[1].width = w
                /\ calls[1].top + calls[1].height <= img.h
                /\ calls[1].left + calls[1].width <= img.w

\* A crop at the largest offsets of a 3 x 3 image for a 1 x 2 box.
C4_Witness ==
    /\ IsRandomCropRun
    /\ pc = "returned"
    /\ img = Pil(3, 3)
    /\ self.size = <<1, 2>>
    /\ calls = <<CropCall(2, 1, 1, 2)>>

\* C5: RandomCrop with size (h, w) on an image with h > H or w > W fails with
\* an assertion failure before any random offset is drawn and before crop is
\* called; nothing is returned.
C5_RandomCropAssertsFit ==
    (IsRandomCropRun /\ (self.size[1] > img.h \/ self.size[2] > img.w) /\ pc # "rc_call") =>
        /\ pc = "raised"
        /\ exc = "AssertionError"
        /\ draws = 0
        /\ calls = <<>>
        /\ ret = NoneV

\* The height fits and the width does not.
C5_Witness ==
    /\ IsRandomCropRun
    /\ pc = "raised"
    /\ exc = "AssertionError"
    /\ self.size = <<1, 3>>
    /\ img = Pil(2, 3)
    /\ draws = 0

(***************************************************************************)
(* center_crop (lines 258-281) and CenterCrop (lines 456-477).             *)
(***************************************************************************)
\* The normalisation both center_crop (lines 271-274) and
\* CenterCrop.__init__ (lines 470-473) apply to a size: an int n and a
\* one-element sequence (n) become (n, n).
NormalizeSize(size) ==
    IF size.kind = "int" THEN SeqArg(<<size.v, size.v>>)
    ELSE IF Len(size.v) = 1 THEN SeqArg(<<size.v[1], size.v[1]>>)
    ELSE size

\* CenterCrop.__init__ (lines 469-474).
CenterCropInit(size) == NormalizeSize(size)

\* Either CenterCrop(size) is constructed and invoked on img, or
\* center_crop(img, size) is called directly.
InitCenterCrop ==
    /\ img \in Images
    /\ \E size \in SizeArgs :
          \/ /\ self = [cls |-> "CenterCrop", given |-> size, size |-> CenterCropInit(size)]
             /\ pc = "cc_call"
             /\ loc = [output_size |-> IntArg(0)]
          \/ /\ self = [cls |-> "center_crop", given |-> size, size |-> size]
             /\ pc = "cc_fn"
             /\ loc = [output_size |-> size]
    /\ calls = <<>>
    /\ draws = 0
    /\ ret = NoneV
    /\ exc = "None"

\* CenterCrop.__call__ (line 477): center_crop(img, self.size).
CenterCropCall ==
    /\ pc = "cc_call"
    /\ loc' = [output_size |-> self.size]
    /\ pc' = "cc_fn"
    /\ UNCHANGED <<self, img, calls, draws, ret, exc>>

\* center_crop, lines 271-274.
CenterCropNormalize ==
    /\ pc = "cc_fn"
    /\ loc' = [output_size |-> NormalizeSize(loc.output_size)]
    /\ pc' = "cc_crop"
    /\ UNCHANGED <<self, img, calls, draws, ret, exc>>

\* center_crop, lines 276-281.
CenterCropCrop ==
    /\ pc = "cc_crop"
    /\ LET wh == GetImageSize(img)
           image_width == wh[1]
           image_height == wh[2]
           crop_height == loc.output_size.v[1]
           crop_width == loc.output_size.v[2]
           crop_top == PyRound(image_height - crop_height, 2)
           crop_left == PyRound(image_width - crop_width, 2)
       IN ReturnCrop(img, crop_top, crop_left, crop_height, crop_width)
    /\ UNCHANGED <<self, img, loc, draws>>

NextCenterCrop == CenterCropCall \/ CenterCropNormalize \/ CenterCropCrop

SpecCenterCrop == InitCenterCrop /\ [][NextCenterCrop]_vars

IsCenterCropRun == "cls" \in DOMAIN self /\ self.cls \in {"CenterCrop", "center_crop"}

\* t is x/2 rounded to the nearest integer, a tie going to the even one.
IsRoundOfHalf(t, x) ==
    /\ Abs(2 * t - x) <= 1
    /\ x % 2 = 0 => 2 * t = x
    /\ x % 2 = 1 => t % 2 = 0

\* The (height, width) the caller asked for.
GivenPair(size) ==
    IF size.kind = "int" THEN <<size.v, size.v>>
    ELSE IF Len(size.v) = 1 THEN <<size.v[1], size.v[1]>>
    ELSE <<size.v[1], size.v[2]>>

\* C6: center_crop(img, (h, w)) on an image of height H and width W calls crop
\* with top = round((H-h)/2), left = round((W-w)/2), height h and width w, for
\* every H, W, h, w (odd differences included); an int or a one-element
\* sequence n stands for (n, n).
C6_CenterCropOffsets ==
    (IsCenterCropRun /\ pc \in {"returned", "raised"}) =>
        LET hw == GivenPair(self.given)
        IN /\ Len(calls) = 1
           /\ calls[1].fn = "crop"
           /\ calls[1].height = hw[1]
           /\ calls[1].width = hw[2]
           /\ IsRoundOfHalf(calls[1].top, img.h - hw[1])
           /\ IsRoundOfHalf(calls[1].left, img.w - hw[2])

\* Differences of 3 (a tie that rounds up, to 2) and 1 (a tie that rounds
\* down, to 0), from a one-element size.
C6_Witness ==
    /\ IsCenterCropRun
    /\ pc = "returned"
    /\ self.given = SeqArg(<<0>>)
    /\ img = Pil(1, 3)
    /\ calls = <<CropCall(2, 0, 0, 0)>>

(***************************************************************************)
(* RandomHorizontalFlip (lines 434-453).  Here an image is its rows of     *)
(* pixels, so that a flipped image differs from the image.                 *)
(***************************************************************************)
Pixels(rows) == [kind |-> "pil", w |-> Len(rows[1]), h |-> Len(rows), px |-> rows]
FlipImages ==
    {Pixels(rows) : rows \in UNION {[1 .. h -> [1 .. w -> {0, 1}]] : h \in 1 .. 2, w \in Dims}}

Reverse(q) == [k \in 1 .. Len(q) |-> q[Len(q) + 1 - k]]

\* hflip (lines 32-45) forwards to the backend, which mirrors every row.
Hflip(im) == Pixels([y \in 1 .. im.h |-> Reverse(im.px[y])])

\* random.random(): a value of [0, 1), here r / RandDen.
RandomRandom == 0 .. (RandDen - 1)

\* p as the caller gives it, here p / RandDen: values below 0 and above 1
\* are accepted by the constructor too.
FlipProbabilities == (-1) .. (RandDen + 1)

\* RandomHorizontalFlip.__init__ (lines 447-448).
InitFlip ==
    /\ pc = "hf_call"
    /\ self \in {[cls |-> "RandomHorizontalFlip", p |-> p] : p \in FlipProbabilities}
    /\ img \in FlipImages
    /\ loc = [r |-> 0]
    /\ calls = <<>>
    /\ draws = 0
    /\ ret = NoneV
    /\ exc = "None"

\* A mutant of FlipTaken: <= for <.
FlipTakenOrEqual(r, p) == r <= p

\* The test of line 451: random.random() < self.p.
FlipTaken(r, p) == r < p

\* Line 451: draw and test.
FlipTest ==
    /\ pc = "hf_call"
    /\ \E r \in RandomRandom :
          /\ loc' = [r |-> r]
          /\ pc' = IF FlipTaken(r, self.p) THEN "hf_flip" ELSE "hf_keep"
    /\ draws' = draws + 1
    /\ UNCHANGED <<self, img, calls, ret, exc>>

\* Line 452: return hflip(img).
FlipReturnFlipped ==
    /\ pc = "hf_flip"
    /\ calls' = Append(calls, [fn |-> "hflip"])
    /\ ret' = Val(Hflip(img))
    /\ pc' = "returned"
    /\ UNCHANGED <<self, img, loc, draws, exc>>

\* Line 453: return img.
FlipReturnSame ==
    /\ pc = "hf_keep"
    /\ ret' = Val(img)
    /\ pc' = "returned"
    /\ UNCHANGED <<self, img, loc, calls, draws, exc>>

NextFlip == FlipTest \/ FlipReturnFlipped \/ FlipReturnSame

SpecFlip == InitFlip /\ [][NextFlip]_vars

IsFlipRun == "cls" \in DOMAIN self /\ self.cls = "RandomHorizontalFlip"

\* C7: RandomHorizontalFlip with p = 1.0 returns hflip(img) and with p = 0.0
\* returns img itself, whatever value the random source gives; for any p the
\* result is hflip(img) or img.
C7_FlipAlwaysOrNever ==
    IsFlipRun =>
        /\ pc \in {"hf_call", "hf_flip", "hf_keep", "returned"}
        /\ self.p = RandDen => pc # "hf_keep"
        /\ self.p = 0 => pc # "hf_flip"
        /\ pc = "returned" =>
              /\ \/ calls = <<[fn |-> "hflip"]>> /\ ret = Val(Hflip(img))
                 \/ calls = <<>> /\ ret = Val(img)
              /\ self.p = RandDen => (calls = <<[fn |-> "hflip"]>> /\ ret = Val(Hflip(img)))
              /\ self.p = 0 => (calls = <<>> /\ ret = Val(img))

\* p = 0 and the smallest random value, 0.0: the image comes back unflipped.
C7_Witness ==
    /\ IsFlipRun
    /\ pc = "returned"
    /\ self.p = 0
    /\ loc.r = 0
    /\ img.px = <<<<0, 1, 1>>>>
    /\ ret = Val(img)
    /\ Hflip(img) # img

(***************************************************************************)
(* to_tensor (lines 308-324), image_normalize (lines 327-350) and          *)
(* ImageNormalize (lines 480-500).  A decoded image is its H x W x C       *)
(* array of integer pixels; an array is C x H x W rationals.               *)
(***************************************************************************)
RECURSIVE Gcd(_, _)
Gcd(a, b) == IF b = 0 THEN a ELSE Gcd(b, a % b)

\* The rational n / d (d # 0) in lowest terms with a positive denominator.
Rat(n, d) ==
    LET g == Gcd(Abs(n), Abs(d))
        sgn == IF d < 0 THEN -1 ELSE 1
    IN <<sgn * (n \div g), sgn * (d \div g)>>

RSub(a, b) == Rat(a[1] * b[2] - b[1] * a[2], a[2] * b[2])
RMul(a, b) == Rat(a[1] * b[1], a[2] * b[2])
RDiv(a, b) == Rat(a[1] * b[2], a[2] * b[1])
RInt(n) == <<n, 1>>

PixelValues == {0, 51, 255}
Channels == 3
PixelImages ==
    {[kind |-> "pil", px |-> a] :
        a \in UNION {[1 .. 1 -> [1 .. w -> [1 .. Channels -> PixelValues]]] : w \in 1 .. 2}}

\* np.array(img): the H x W x C array of the image's pixels.
NpArray(im) == im.px

\* a.transpose((2, 0, 1)) of an H x W x C array: C x H x W.
Transpose201(a) ==
    [c \in 1 .. Len(a[1][1]) |-> [y \in 1 .. Len(a) |-> [x \in 1 .. Len(a[1]) |-> a[y][x][c]]]]

Nd(a) == [kind |-> "nd", a |-> a]

\* An array of shape (n, 1, 1), n = 1 or n = C, broadcast to channel c.
Broadcast(m, c) == IF Len(m) = 1 THEN m[1] ELSE m[c]

\* to_tensor (lines 322-324).
ToTensor(x) ==
    IF x.kind = "pil"
    THEN Nd([c \in 1 .. Channels |-> [y \in 1 .. Len(x.px) |-> [k \in 1 .. Len(x.px[1]) |->
                RDiv(RInt(Transpose201(NpArray(x))[c][y][k]), RInt(255))]]])
    ELSE x

\* A mutant of ImageNormalizeFn: the image path leaves mean in the 0-255
\* scale.
ImageNormalizeRawMean(x, mean, std) ==
    IF x.kind = "pil"
    THEN Nd([c \in 1 .. Channels |-> [y \in 1 .. Len(x.px) |-> [k \in 1 .. Len(x.px[1]) |->
                RDiv(RSub(RInt(Transpose201(NpArray(x))[c][y][k]), Broadcast(mean, c)),
                     RMul(Broadcast(std, c), RInt(255)))]]])
    ELSE Nd([c \in 1 .. Len(x.a) |-> [y \in 1 .. Len(x.a[1]) |-> [k \in 1 .. Len(x.a[1][1]) |->
                RDiv(RSub(x.a[c][y][k], Broadcast(mean, c)), Broadcast(std, c))]]])

\* image_normalize (lines 344-350).
ImageNormalizeFn(x, mean, std) ==
    IF x.kind = "pil"
    THEN Nd([c \in 1 .. Channels |-> [y \in 1 .. Len(x.px) |-> [k \in 1 .. Len(x.px[1]) |->
                RDiv(RSub(RInt(Transpose201(NpArray(x))[c][y][k]),
                          RMul(Broadcast(mean, c), RInt(255))),
                     RMul(Broadcast(std, c), RInt(255)))]]])
    ELSE Nd([c \in 1 .. Len(x.a) |-> [y \in 1 .. Len(x.a[1]) |-> [k \in 1 .. Len(x.a[1][1]) |->
                RDiv(RSub(x.a[c][y][k], Broadcast(mean, c)), Broadcast(std, c))]]])

MeanValues == {RInt(0), <<1, 2>>}
StdValues == {RInt(1), <<1, 2>>}
PerChannel(S) == [1 .. 1 -> S] \cup [1 .. Channels -> S]

\* ImageNormalize.__init__ (lines 495-497): mean and std reshaped to
\* (-1, 1, 1).  A run normalises img directly and then through to_tensor.
InitNormalize ==
    /\ pc = "n_image"
    /\ self \in {[cls |-> "ImageNormalize", mean |-> m, std |-> sd] :
                    m \in PerChannel(MeanValues), sd \in PerChannel(StdValues)}
    /\ img \in PixelImages
    /\ loc = [direct |-> NoneV, tensor |-> NoneV]
    /\ calls = <<>>
    /\ draws = 0
    /\ ret = NoneV
    /\ exc = "None"

\* ImageNormalize.__call__ (line 500) on the decoded image.
NormalizeImage ==
    /\ pc = "n_image"
    /\ loc' = [loc EXCEPT !.direct = ImageNormalizeFn(img, self.mean, self.std)]
    /\ pc' = "n_tensor"
    /\ UNCHANGED <<self, img, calls, draws, ret, exc>>

\* to_tensor(img).
ConvertImage ==
    /\ pc = "n_tensor"
    /\ loc' = [loc EXCEPT !.tensor = ToTensor(img)]
    /\ pc' = "n_array"
    /\ UNCHANGED <<self, img, calls, draws, ret, exc>>

\* ImageNormalize.__call__ (line 500) on the array to_tensor returned.
NormalizeArray ==
    /\ pc = "n_array"
    /\ ret' = Val(ImageNormalizeFn(loc.tensor, self.mean, self.std))
    /\ pc' = "returned"
    /\ UNCHANGED <<self, img, loc, calls, draws, exc>>

NextNormalize == NormalizeImage \/ ConvertImage \/ NormalizeArray

SpecNormalize == InitNormalize /\ [][NextNormalize]_vars

IsNormalizeRun == "cls" \in DOMAIN self /\ self.cls = "ImageNormalize"

\* v is (p / 255 - m) / sd.
IsNormalized(v, p, m, sd) ==
    v[1] * (255 * m[2] * sd[1]) = v[2] * ((p * m[2] - 255 * m[1]) * sd[2])

AllOf(m, v) == \A c \in 1 .. Len(m) : m[c] = v

\* C10: image_normalize(img, mean, std) equals
\* image_normalize(to_tensor(img), mean, std) for every decoded 3-channel
\* image and per-channel mean and std (std non-zero): both are
\* (pixel/255 - mean) / std in channel-first layout; with mean 0 and std 1
\* the array path returns its input and the image path returns
\* to_tensor(img).
C10_NormalizePathsAgree ==
    (IsNormalizeRun /\ pc = "returned") =>
        /\ loc.direct = ret.v
        /\ loc.direct.kind = "nd"
        /\ Len(loc.direct.a) = Channels
        /\ \A c \in 1 .. Channels :
              /\ Len(loc.direct.a[c]) = Len(img.px)
              /\ \A y \in 1 .. Len(img.px) :
                    /\ Len(loc.direct.a[c][y]) = Len(img.px[1])
                    /\ \A x \in 1 .. Len(img.px[1]) :
                          IsNormalized(loc.direct.a[c][y][x], img.px[y][x][c],
                                       Broadcast(self.mean, c), Broadcast(self.std, c))
        /\ (AllOf(self.mean, RInt(0)) /\ AllOf(self.std, RInt(1))) =>
              (ret.v = loc.tensor /\ loc.direct = ToTensor(img))

\* A two-pixel image, a different non-zero mean per channel, std 1/2.
C10_Witness ==
    /\ IsNormalizeRun
    /\ pc = "returned"
    /\ img.px = <<<< <<255, 51, 0>>, <<51, 0, 255>> >>>>
    /\ self.mean = <<RInt(0), <<1, 2>>, <<1, 2>>>>
    /\ self.std = <<<<1, 2>>>>
    /\ loc.direct.a[2][1] = <<<<-3, 5>>, <<-1, 1>>>>
    /\ ret.v = loc.direct

(***************************************************************************)
(* resize (lines 216-238), crop_and_resize (lines 284-305) and             *)
(* RandomCropAndResize (lines 373-431).                                    *)
(***************************************************************************)
RLess(a, b) == a[1] * b[2] < b[1] * a[2]
RLeq(a, b) == a[1] * b[2] <= b[1] * a[2]

\* min(ratio) and max(ratio) of a pair (lines 420-425).
PyMin(pair) == IF RLess(pair[2], pair[1]) THEN pair[2] ELSE pair[1]
PyMax(pair) == IF RLess(pair[1], pair[2]) THEN pair[2] ELSE pair[1]

\* int(round(math.sqrt(n / d))) for n >= 0, d > 0: the largest k with
\* k - 1/2 <= sqrt(n / d), less one when that is a tie and k is odd.
RoundSqrt(n, d) ==
    LET up == {k \in 1 .. (n \div d + 1) : (2 * k - 1) * (2 * k - 1) * d <= 4 * n}
        k == IF up = {} THEN 0 ELSE CHOOSE m \in up : \A o \in up : o <= m
    IN IF k > 0 /\ (2 * k - 1) * (2 * k - 1) * d = 4 * n /\ k % 2 = 1 THEN k - 1 ELSE k

NumTrials == 10

IsEmpty(im) == im.w = 0 \/ im.h = 0

\* resize (lines 216-238) forwards to the backend.  A pair (h, w) gives an
\* image of that size; an int or a one-element sequence matches the smaller
\* edge to it and keeps the aspect ratio.  What the backend makes of an empty
\* image is its own: a failure, or an image of the size asked for.
ResizeOutcomes(im, size) ==
    LET fail == [kind |-> "raise", e |-> "BackendError"]
    IN IF size.kind = "seq" /\ Len(size.v) = 2
       THEN {Val(Pil(size.v[2], size.v[1]))} \cup (IF IsEmpty(im) THEN {fail} ELSE {})
       ELSE LET n == IF size.kind = "int" THEN size.v ELSE size.v[1]
            IN IF IsEmpty(im) THEN {fail}
               ELSE IF im.w <= im.h
               THEN {Val(Pil(n, (n * im.h) \div im.w))}
               ELSE {Val(Pil((n * im.w) \div im.h, n))}

ScaleValues == {<<-1, 2>>, <<1, 4>>, <<1, 1>>, <<4, 1>>}
RatioValues == {<<0, 1>>, <<1, 3>>, <<3, 4>>, <<4, 3>>, <<3, 1>>}
Ranges(S) == {<<a, b>> : a \in S, b \in S}
TargetSizeArgs == {IntArg(2), SeqArg(<<2>>), SeqArg(<<1, 2>>)}

\* RandomCropAndResize.__init__ (lines 388-397): an int size becomes a pair;
\* the ranges must be ordered.
RcrInitSize(size) == IF size.kind = "int" THEN SeqArg(<<size.v, size.v>>) ELSE size
RcrInitAccepts(scale, ratio) == RLeq(scale[1], scale[2]) /\ RLeq(ratio[1], ratio[2])

InitRcr ==
    /\ pc = "rcr_call"
    /\ \E size \in TargetSizeArgs, scale \in Ranges(ScaleValues), ratio \in Ranges(RatioValues) :
          /\ RcrInitAccepts(scale, ratio)
          /\ self = [cls |-> "RandomCropAndResize", given |-> size,
                     size |-> RcrInitSize(size), scale |-> scale, ratio |-> ratio]
    /\ img \in Images
    /\ loc = [width |-> 0, height |-> 0, area |-> 0, trial |-> 0,
              w |-> 0, h |-> 0, i |-> 0, j |-> 0, via |-> "none", cropped |-> NoneV]
    /\ calls = <<>>
    /\ draws = 0
    /\ ret = NoneV
    /\ exc = "None"

\* Lines 400-403.
RcrEnter ==
    /\ pc = "rcr_call"
    /\ loc' = [loc EXCEPT !.width = img.w, !.height = img.h, !.area = img.h * img.w]
    /\ pc' = "rcr_loop"
    /\ UNCHANGED <<self, img, calls, draws, ret, exc>>

\* random.uniform(a, b): a value of [a, b], here one of the grid S.
Uniform(a, b, S) == {v \in S : RLeq(a, v) /\ RLeq(v, b)}

\* The test of line 413.
Fits(w, h, width, height) == 0 < w /\ w <= width /\ 0 < h /\ h <= height

\* Lines 405-411 with the outcomes u of random.uniform(*scale) and
\* aspect_ratio: math.sqrt raises on a negative target area.
RcrTrialWith(u, aspect_ratio) ==
    LET tn == u[1] * loc.area
        td == u[2]
    IN IF tn < 0
       THEN /\ pc' = "raised"
            /\ exc' = "ValueError"
            /\ loc' = [loc EXCEPT !.trial = @ + 1]
       ELSE /\ loc' = [loc EXCEPT !.trial = @ + 1,
                          !.w = RoundSqrt(tn * aspect_ratio[1], td * aspect_ratio[2]),
                          !.h = RoundSqrt(tn * aspect_ratio[2], td * aspect_ratio[1])]
            /\ pc' = "rcr_test"
            /\ UNCHANGED exc

\* One pass of the loop body up to the test (lines 405-411): the draw of the
\* area fraction, math.log of the ratios (which raises unless both are
\* positive), the draw of the aspect ratio, w and h.
RcrTrial ==
    /\ pc = "rcr_loop"
    /\ loc.trial < NumTrials
    /\ IF self.ratio[1][1] <= 0 \/ self.ratio[2][1] <= 0
       THEN /\ pc' = "raised"
            /\ exc' = "ValueError"
            /\ loc' = [loc EXCEPT !.trial = @ + 1]
            /\ draws' = draws + 1
       ELSE /\ \E u \in Uniform(self.scale[1], self.scale[2], ScaleValues),
                  a \in Uniform(self.ratio[1], self.ratio[2], RatioValues) :
                     RcrTrialWith(u, a)
            /\ draws' = draws + 2
    /\ UNCHANGED <<self, img, calls, ret>>

\* Line 413: a box that fits ends the loop; another goes to the next pass.
RcrTest ==
    /\ pc = "rcr_test"
    /\ pc' = IF Fits(loc.w, loc.h, loc.width, loc.height) THEN "rcr_offsets" ELSE "rcr_loop"
    /\ UNCHANGED <<self, img, loc, calls, draws, ret, exc>>

\* Lines 414-416: random.randint(0, n) returns a value of 0 .. n.
RcrOffsets ==
    /\ pc = "rcr_offsets"
    /\ \E i \in 0 .. (loc.height - loc.h), j \in 0 .. (loc.width - loc.w) :
          loc' = [loc EXCEPT !.i = i, !.j = j, !.via = "trial"]
    /\ draws' = draws + 2
    /\ pc' = "rcr_crop"
    /\ UNCHANGED <<self, img, calls, ret, exc>>

\* A mutant of RcrFallbackBox: the two bounds of the ratio range are swapped.
RcrFallbackBoxSwapped(width, height, ratio) ==
    IF RLess(<<width, height>>, PyMax(ratio))
    THEN <<width, PyRound(width * PyMax(ratio)[2], PyMax(ratio)[1])>>
    ELSE IF RLess(PyMin(ratio), <<width, height>>)
    THEN <<PyRound(height * PyMin(ratio)[1], PyMin(ratio)[2]), height>>
    ELSE <<width, height>>

\* Lines 419-428: the fallback's (w, h).
RcrFallbackBox(width, height, ratio) ==
    IF RLess(<<width, height>>, PyMin(ratio))
    THEN <<width, PyRound(width * PyMin(ratio)[2], PyMin(ratio)[1])>>
    ELSE IF RLess(PyMax(ratio), <<width, height>>)
    THEN <<PyRound(height * PyMax(ratio)[1], PyMax(ratio)[2]), height>>
    ELSE <<width, height>>

\* The else of the for loop (lines 417-430): all passes were rejected.
RcrFallback ==
    /\ pc = "rcr_loop"
    /\ loc.trial >= NumTrials
    /\ LET wh == RcrFallbackBox(loc.width, loc.height, self.ratio)
       IN loc' = [loc EXCEPT !.w = wh[1], !.h = wh[2],
                             !.i = (loc.height - wh[2]) \div 2,
                             !.j = (loc.width - wh[1]) \div 2,
                             !.via = "fallback"]
    /\ pc' = "rcr_crop"
    /\ UNCHANGED <<self, img, calls, draws, ret, exc>>

\* Line 431 and crop_and_resize, line 303: crop(img, top, left, height, width).
RcrCrop ==
    /\ pc = "rcr_crop"
    /\ calls' = Append(calls, CropCall(loc.i, loc.j, loc.h, loc.w))
    /\ \E out \in CropOutcomes(img, loc.i, loc.j, loc.h, loc.w) :
          IF out.kind = "val"
          THEN /\ loc' = [loc EXCEPT !.cropped = out]
               /\ pc' = "rcr_resize"
               /\ UNCHANGED exc
          ELSE /\ pc' = "raised"
               /\ exc' = out.e
               /\ UNCHANGED loc
    /\ UNCHANGED <<self, img, draws, ret>>

\* The size crop_and_resize passes on to resize (lines 304, 431): self.size.
CropAndResizeSize == self.size

\* crop_and_resize, lines 304-305: resize(img, size, interpolation).
RcrResize ==
    /\ pc = "rcr_resize"
    /\ calls' = Append(calls, [fn |-> "resize", size |-> CropAndResizeSize])
    /\ \E out \in ResizeOutcomes(loc.cropped.v, CropAndResizeSize) :
          IF out.kind = "val"
          THEN pc' = "returned" /\ ret' = out /\ UNCHANGED exc
          ELSE pc' = "raised" /\ exc' = out.e /\ UNCHANGED ret
    /\ UNCHANGED <<self, img, loc, draws>>

NextRcr ==
    RcrEnter \/ RcrTrial \/ RcrTest \/ RcrOffsets \/ RcrFallback \/ RcrCrop \/ RcrResize

SpecRcr == InitRcr /\ [][NextRcr]_vars

IsRcrRun == "cls" \in DOMAIN self /\ self.cls = "RandomCropAndResize"
\* The (width, height) the configured size asks for.
TargetImage(size) ==
    IF size.kind = "int" THEN Pil(size.v, size.v)
    ELSE IF Len(size.v) = 1 THEN Pil(size.v[1], size.v[1])
    ELSE Pil(size.v[2], size.v[1])

\* C3: for every source image, every scale and ratio range the constructor
\* accepts and every outcome of the trials (one accepted, or all 10 rejected
\* and the fallback taken), RandomCropAndResize.__call__ returns an image of
\* exactly the configured target size.
C3_AlwaysTargetSize ==
    (IsRcrRun /\ pc \in {"returned", "raised"}) =>
        /\ pc = "returned"
        /\ ret = Val(TargetImage(self.given))

\* r is n / d (d > 0) rounded to the nearest integer, a tie to the even one.
IsRoundOf(r, n, d) ==
    /\ Abs(2 * r * d - 2 * n) <= d
    /\ Abs(2 * r * d - 2 * n) = d => r % 2 = 0

\* C8: RandomCropAndResize.__call__ draws at most 10 trials, stops at the
\* first whose box has 0 < w <= width and 0 < h <= height and uses it at
\* offsets top in [0, height-h], left in [0, width-w]; only after 10
\* rejections it takes the fallback: full width and height
\* round(width/min(ratio)) if width/height < min(ratio), full height and width
\* round(height*max(ratio)) if width/height > max(ratio), else the full image,
\* placed at top = (height-h)//2, left = (width-w)//2.
C8_TrialsThenFallback ==
    IsRcrRun =>
        LET W == img.w
            H == img.h
            rmin == self.ratio[1]
            rmax == self.ratio[2]
        IN /\ loc.trial <= 10
           /\ draws <= 2 * loc.trial + 2
           /\ pc = "rcr_loop" =>
                /\ draws = 2 * loc.trial
                /\ loc.trial > 0 => ~ Fits(loc.w, loc.h, W, H)
           /\ (pc = "rcr_test" /\ Fits(loc.w, loc.h, W, H)) =>
                /\ ENABLED (RcrTest /\ pc' = "rcr_offsets")
                /\ ~ ENABLED (RcrTest /\ pc' = "rcr_loop")
           /\ pc = "rcr_offsets" => (Fits(loc.w, loc.h, W, H) /\ loc.via = "none")
           /\ pc \in {"rcr_crop", "rcr_resize", "returned"} => loc.via \in {"trial", "fallback"}
           /\ loc.via = "trial" =>
                /\ loc.trial \in 1 .. 10
                /\ draws = 2 * loc.trial + 2
                /\ 0 < loc.w /\ loc.w <= W /\ 0 < loc.h /\ loc.h <= H
                /\ loc.i \in 0 .. (H - loc.h)
                /\ loc.j \in 0 .. (W - loc.w)
           /\ loc.via = "fallback" =>
                /\ loc.trial = 10
                /\ draws = 20
                /\ IF W * rmin[2] < H * rmin[1]
                   THEN loc.w = W /\ IsRoundOf(loc.h, W * rmin[2], rmin[1])
                   ELSE IF W * rmax[2] > H * rmax[1]
                   THEN loc.h = H /\ IsRoundOf(loc.w, H * rmax[1], rmax[2])
                   ELSE loc.w = W /\ loc.h = H
                /\ 2 * loc.i <= H - loc.h /\ H - loc.h <= 2 * loc.i + 1
                /\ 2 * loc.j <= W - loc.w /\ W - loc.w <= 2 * loc.j + 1
           /\ Len(calls) >= 1 => calls[1] = CropCall(loc.i, loc.j, loc.h, loc.w)

\* All ten trials rejected on a 1 x 3 image (every box is wider than 1); its
\* aspect 1/3 is below min(ratio) = 3/4, so the fallback box is 1 wide and
\* round(1 / (3/4)) = 1 high, at top (3-1)//2 = 1.
C8_Witness ==
    /\ IsRcrRun
    /\ pc = "returned"
    /\ loc.via = "fallback"
    /\ img = Pil(1, 3)
    /\ self.ratio = <<<<3, 4>>, <<4, 3>>>>
    /\ calls[1] = CropCall(1, 0, 1, 1)

\* C9: for every source image with width and height >= 1 and every accepted
\* scale and ratio range with positive ratios, the crop box passed to
\* crop_and_resize is non-empty and inside the source on every path, the
\* fallback included.
C9_BoxNonEmptyInside ==
    (IsRcrRun /\ self.ratio[1][1] > 0 /\ self.ratio[2][1] > 0) =>
        \A k \in 1 .. Len(calls) :
            calls[k].fn = "crop" =>
                /\ calls[k].height >= 1
                /\ calls[k].width >= 1
                /\ 0 <= calls[k].top
                /\ 0 <= calls[k].left
                /\ calls[k].top + calls[k].height <= img.h
                /\ calls[k].left + calls[k].width <= img.w

====
